---- MODULE Spec2Model ----
(***************************************************************************)
(* The graph query engine of reactsubjectviz: relationship queries,        *)
(* traversals, shortest paths and cycle detection over a fixed list of     *)
(* directed edges.  JavaScript arrays are sequences; a JavaScript Set is   *)
(* a sequence without repetition, in insertion order.                      *)
(***************************************************************************)
EXTENDS Integers, Sequences, FiniteSets, TLC

\* Vertex identifiers are 1..MaxVertex; an edge list holds at most MaxEdges edges.
MaxVertex == 3
MaxEdges == 3
\* dfs is called with a depth limit of 0..MaxDepth.
MaxDepth == 2

Vertices == 1..MaxVertex

DirectedEdge == [source : Vertices, target : Vertices]

EdgeLists == UNION {[1..n -> DirectedEdge] : n \in 0..MaxEdges}

----------------------------------------------------------------------------
(* Array and Set primitives of the language runtime. *)

\* Array.prototype.includes / Set.prototype.has
Has(s, x) == \E i \in DOMAIN s : s[i] = x

\* Set.prototype.add: insertion order, no repetition
SetAdd(s, x) == IF Has(s, x) THEN s ELSE Append(s, x)

\* the elements of an array, as a set
Elems(s) == {s[i] : i \in DOMAIN s}

NoDup(s) == \A i, j \in DOMAIN s : s[i] = s[j] => i = j

MapSeq(s, F(_)) == [i \in 1..Len(s) |-> F(s[i])]

RECURSIVE Flatten(_)
Flatten(ss) ==
  IF ss = <<>> THEN <<>> ELSE Head(ss) \o Flatten(Tail(ss))

RECURSIVE AddAll(_, _)
AddAll(s, values) ==
  IF values = <<>> THEN s ELSE AddAll(SetAdd(s, Head(values)), Tail(values))

\* a mutant of uniqueNumbers: the array is returned as it came
uniqueNumbers_noSet(values) == values

uniqueNumbers(values) == AddAll(<<>>, values)

----------------------------------------------------------------------------
(* Graph index *)

\* a mutant of parents: only the first edge that points to id is looked at
parents_firstEdge(id, edges) ==
  LET found == SelectSeq(edges, LAMBDA edge : edge.target = id)
  IN  IF found = <<>> THEN <<>> ELSE <<found[1].source>>

parents(id, edges) ==
  uniqueNumbers(MapSeq(SelectSeq(edges, LAMBDA edge : edge.target = id),
                       LAMBDA edge : edge.source))

children(id, edges) ==
  uniqueNumbers(MapSeq(SelectSeq(edges, LAMBDA edge : edge.source = id),
                       LAMBDA edge : edge.target))

everything(edges) ==
  uniqueNumbers(Flatten(MapSeq(edges, LAMBDA edge : <<edge.source, edge.target>>)))

----------------------------------------------------------------------------
(* The worklist of ancestors and descendants: one iteration of the while   *)
(* loop pops the last entry, adds it to the Set and pushes those of its    *)
(* neighbours the Set does not hold yet.                                   *)

\* a mutant of the loop body: every neighbour is pushed, in the Set or not
WorkStep_pushAll(q, acc, nbrs) ==
  [queue |-> SubSeq(q, 1, Len(q) - 1) \o nbrs,
   set   |-> SetAdd(acc, q[Len(q)])]

WorkStep(q, acc, nbrs) ==
  LET nextId == q[Len(q)]
      added  == SetAdd(acc, nextId)
  IN  [queue |-> SubSeq(q, 1, Len(q) - 1)
                   \o SelectSeq(nbrs, LAMBDA n : ~Has(added, n)),
       set   |-> added]

RECURSIVE ancestorsLoop(_, _, _)
ancestorsLoop(q, acc, edges) ==
  IF Len(q) > 0
  THEN LET st == WorkStep(q, acc, parents(q[Len(q)], edges))
       IN  ancestorsLoop(st.queue, st.set, edges)
  ELSE acc

\* a mutant of ancestors: the queried vertex is dropped from the result
ancestors_noSelf(id, edges) ==
  SelectSeq(ancestorsLoop(parents(id, edges), <<>>, edges), LAMBDA n : n # id)

\* a mutant of ancestors: the worklist starts from the queried vertex itself
ancestors_seedSelf(id, edges) == ancestorsLoop(<<id>>, <<>>, edges)

ancestors(id, edges) == ancestorsLoop(parents(id, edges), <<>>, edges)

RECURSIVE descendantsLoop(_, _, _)
descendantsLoop(q, acc, edges) ==
  IF Len(q) > 0
  THEN LET st == WorkStep(q, acc, children(q[Len(q)], edges))
       IN  descendantsLoop(st.queue, st.set, edges)
  ELSE acc

\* a mutant of descendants: only the direct children are returned
descendants_direct(id, edges) == children(id, edges)

descendants(id, edges) == descendantsLoop(children(id, edges), <<>>, edges)

----------------------------------------------------------------------------
(* Relationship queries *)

descendantsAndSelf(id, edges) == uniqueNumbers(<<id>> \o descendants(id, edges))

\* a mutant of parentsAndSelf: the plain concatenation of the first search.ts
parentsAndSelf_concat(id, edges) == <<id>> \o parents(id, edges)

parentsAndSelf(id, edges) == uniqueNumbers(<<id>> \o parents(id, edges))

\* a mutant of siblings: id is not filtered out
siblings_withSelf(id, edges) ==
  LET parentsOfId == parents(id, edges)
  IN  uniqueNumbers(Flatten(MapSeq(parentsOfId, LAMBDA parent : children(parent, edges))))

siblings(id, edges) ==
  LET parentsOfId == parents(id, edges)
  IN  uniqueNumbers(
        SelectSeq(Flatten(MapSeq(parentsOfId, LAMBDA parent : children(parent, edges))),
                  LAMBDA child : child # id))

cousins(id, edges) ==
  LET siblingsOfId == siblings(id, edges)
  IN  uniqueNumbers(
        Flatten(MapSeq(siblingsOfId, LAMBDA sibling : descendants(sibling, edges))))

\* a mutant of related: id itself is never among the related
related_notSelf(id, edges) ==
  SelectSeq(uniqueNumbers(ancestors(id, edges) \o descendants(id, edges)),
            LAMBDA x : x # id)

related(id, edges) == uniqueNumbers(ancestors(id, edges) \o descendants(id, edges))

isolatedNodes(edges) ==
  uniqueNumbers(SelectSeq(everything(edges), LAMBDA id : Len(related(id, edges)) = 0))

relatedAndSelf(id, edges) == uniqueNumbers(Append(related(id, edges), id))

ancestorsAndSelf(id, edges) == uniqueNumbers(Append(ancestors(id, edges), id))

cousinsAndSelf(id, edges) == uniqueNumbers(Append(cousins(id, edges), id))

siblingsAndSelf(id, edges) == uniqueNumbers(Append(siblings(id, edges), id))

childrenAndSelf(id, edges) == uniqueNumbers(Append(children(id, edges), id))

----------------------------------------------------------------------------
(* The first search.ts: adjacency without de-duplication, and the          *)
(* traversals maze, bfs, dfs and shortestPath built on it.                 *)

search_parents(id, edges) ==
  MapSeq(SelectSeq(edges, LAMBDA edge : edge.target = id), LAMBDA edge : edge.source)

\* a mutant of search_children: the parents of the vertex are its neighbours too
search_children_undirected(id, edges) ==
  MapSeq(SelectSeq(edges, LAMBDA edge : edge.source = id), LAMBDA edge : edge.target)
    \o MapSeq(SelectSeq(edges, LAMBDA edge : edge.target = id), LAMBDA edge : edge.source)

search_children(id, edges) ==
  MapSeq(SelectSeq(edges, LAMBDA edge : edge.source = id), LAMBDA edge : edge.target)

RECURSIVE mazeLoop(_, _, _, _)
mazeLoop(stack, visited, result, edges) ==
  IF Len(stack) > 0
  THEN LET current == stack[Len(stack)]
           rest    == SubSeq(stack, 1, Len(stack) - 1)
       IN  IF Has(visited, current)
           THEN mazeLoop(rest, visited, result, edges)
           ELSE mazeLoop(rest \o search_children(current, edges),
                         SetAdd(visited, current), Append(result, current), edges)
  ELSE result

maze(start, edges) == mazeLoop(<<start>>, <<>>, <<>>, edges)

RECURSIVE bfsLoop(_, _, _, _)
bfsLoop(q, visited, result, edges) ==
  IF Len(q) > 0
  THEN LET current == Head(q)
           rest    == Tail(q)
       IN  IF Has(visited, current)
           THEN bfsLoop(rest, visited, result, edges)
           ELSE bfsLoop(rest \o search_children(current, edges),
                        SetAdd(visited, current), Append(result, current), edges)
  ELSE result

bfs(start, edges) == bfsLoop(<<start>>, <<>>, <<>>, edges)

\* a mutant of dfsStep: a vertex already visited is taken and expanded again
dfsStep_noVisited(stack, visited, result, edges, maxDepth) ==
  LET top  == stack[Len(stack)]
      rest == SubSeq(stack, 1, Len(stack) - 1)
  IN  [stack   |-> IF top.depth < maxDepth
                   THEN rest \o MapSeq(search_children(top.id, edges),
                                       LAMBDA child : [id |-> child, depth |-> top.depth + 1])
                   ELSE rest,
       visited |-> SetAdd(visited, top.id),
       result  |-> Append(result, top.id)]

\* one iteration of while (stack.length > 0)
dfsStep(stack, visited, result, edges, maxDepth) ==
  LET top  == stack[Len(stack)]
      rest == SubSeq(stack, 1, Len(stack) - 1)
  IN  IF Has(visited, top.id)
      THEN [stack |-> rest, visited |-> visited, result |-> result]
      ELSE [stack   |-> IF top.depth < maxDepth
                        THEN rest \o MapSeq(search_children(top.id, edges),
                                            LAMBDA child : [id    |-> child,
                                                            depth |-> top.depth + 1])
                        ELSE rest,
            visited |-> SetAdd(visited, top.id),
            result  |-> Append(result, top.id)]

RECURSIVE dfsLoop(_, _, _, _, _)
dfsLoop(stack, visited, result, edges, maxDepth) ==
  IF Len(stack) > 0
  THEN LET st == dfsStep(stack, visited, result, edges, maxDepth)
       IN  dfsLoop(st.stack, st.visited, st.result, edges, maxDepth)
  ELSE result

dfs(start, edges, maxDepth) ==
  dfsLoop(<<[id |-> start, depth |-> 0]>>, <<>>, <<>>, edges, maxDepth)

RECURSIVE shortestPathLoop(_, _, _, _)
shortestPathLoop(q, visited, end, edges) ==
  IF Len(q) > 0
  THEN LET head == Head(q)
           rest == Tail(q)
       IN  IF Has(visited, head.id)
           THEN shortestPathLoop(rest, visited, end, edges)
           ELSE IF head.id = end
                THEN head.path
                ELSE shortestPathLoop(
                       rest \o MapSeq(search_children(head.id, edges),
                                      LAMBDA child : [id |-> child,
                                                      path |-> Append(head.path, child)]),
                       SetAdd(visited, head.id), end, edges)
  ELSE <<>>

\* a mutant of shortestPath: the start vertex is marked visited when it is queued
shortestPath_startVisited(start, end, edges) ==
  shortestPathLoop(<<[id |-> start, path |-> <<start>>]>>, <<start>>, end, edges)

shortestPath(start, end, edges) ==
  shortestPathLoop(<<[id |-> start, path |-> <<start>>]>>, <<>>, end, edges)

----------------------------------------------------------------------------
(* PriorityQueue and dijkstraShortestPath.  A queue entry is the pair      *)
(* <<distance, path>>.                                                     *)

\* a mutant of the comparator: the operands are subtracted the wrong way round
comparator_reversed(a, b) == b[1] - a[1]

\* the comparator dijkstraShortestPath hands to its PriorityQueue
comparator(a, b) == a[1] - b[1]

\* a mutant of SortedInsert: an element goes in front of the elements it
\* compares equal to
SortedInsert_beforeEqual(sorted, x) ==
  LET behind == {i \in 0..Len(sorted) :
                   \A j \in 1..i : comparator(sorted[j], x) < 0}
      k == CHOOSE i \in behind : \A j \in behind : j <= i
  IN  SubSeq(sorted, 1, k) \o <<x>> \o SubSeq(sorted, k + 1, Len(sorted))

\* Array.prototype.sort is stable: an element goes behind every element that
\* does not compare greater
SortedInsert(sorted, x) ==
  LET behind == {i \in 0..Len(sorted) :
                   \A j \in 1..i : comparator(sorted[j], x) <= 0}
      k == CHOOSE i \in behind : \A j \in behind : j <= i
  IN  SubSeq(sorted, 1, k) \o <<x>> \o SubSeq(sorted, k + 1, Len(sorted))

RECURSIVE SortFrom(_, _)
SortFrom(sorted, rest) ==
  IF rest = <<>> THEN sorted ELSE SortFrom(SortedInsert(sorted, Head(rest)), Tail(rest))

sort(array) == SortFrom(<<>>, array)

enqueue(q, element) == sort(Append(q, element))

\* dequeue: this._queue.shift()
dequeue(q) == [element |-> Head(q), queue |-> Tail(q)]

RECURSIVE enqueueAll(_, _)
enqueueAll(q, elements) ==
  IF elements = <<>> THEN q ELSE enqueueAll(enqueue(q, Head(elements)), Tail(elements))

\* one iteration of while (queue.length > 0): the queue and the Set it leaves,
\* and the path it returns if it returns
dijkstraStep(q, visited, target, edges) ==
  LET distance == dequeue(q).element[1]
      path     == dequeue(q).element[2]
      rest     == dequeue(q).queue
      current  == path[Len(path)]
  IN  IF current = target
      THEN [queue |-> rest, visited |-> visited, returned |-> TRUE, path |-> path]
      ELSE IF Has(visited, current)
           THEN [queue |-> rest, visited |-> visited, returned |-> FALSE, path |-> <<>>]
           ELSE [queue    |-> enqueueAll(rest,
                                MapSeq(children(current, edges),
                                       LAMBDA child : <<distance + 1, Append(path, child)>>)),
                 visited  |-> SetAdd(visited, current),
                 returned |-> FALSE,
                 path     |-> <<>>]

RECURSIVE dijkstraLoop(_, _, _, _)
dijkstraLoop(q, visited, target, edges) ==
  IF Len(q) > 0
  THEN LET st == dijkstraStep(q, visited, target, edges)
       IN  IF st.returned
           THEN st.path
           ELSE dijkstraLoop(st.queue, st.visited, target, edges)
  ELSE <<>>

dijkstraShortestPath(source, target, edges) ==
  dijkstraLoop(enqueue(<<>>, <<0, <<source>>>>), <<>>, target, edges)

----------------------------------------------------------------------------
(* hasCycle.  Its stack is a Set: the first entry in insertion order is    *)
(* taken and deleted.                                                      *)

RECURSIVE hasCycleChildren(_, _, _)
hasCycleChildren(kids, stack, visited) ==
  IF kids = <<>>
  THEN [found |-> FALSE, stack |-> stack]
  ELSE IF Has(stack, Head(kids))
       THEN [found |-> TRUE, stack |-> stack]
       ELSE hasCycleChildren(Tail(kids),
                             IF ~Has(visited, Head(kids))
                             THEN SetAdd(stack, Head(kids))
                             ELSE stack,
                             visited)

RECURSIVE hasCycleWhile(_, _, _)
hasCycleWhile(stack, visited, edges) ==
  IF Len(stack) > 0
  THEN LET current == Head(stack)
           seen    == SetAdd(visited, current)
           scan    == hasCycleChildren(related(current, edges), Tail(stack), seen)
       IN  IF scan.found
           THEN [found |-> TRUE, visited |-> seen]
           ELSE hasCycleWhile(scan.stack, seen, edges)
  ELSE [found |-> FALSE, visited |-> visited]

RECURSIVE hasCycleFor(_, _, _)
hasCycleFor(nodes, visited, edges) ==
  IF nodes = <<>>
  THEN FALSE
  ELSE IF Has(visited, Head(nodes))
       THEN hasCycleFor(Tail(nodes), visited, edges)
       ELSE LET walk == hasCycleWhile(<<Head(nodes)>>, visited, edges)
            IN  IF walk.found
                THEN TRUE
                ELSE hasCycleFor(Tail(nodes), walk.visited, edges)

hasCycle(edges) == hasCycleFor(everything(edges), <<>>, edges)

----------------------------------------------------------------------------
(* traverse: the visited Set grows by sweeping the edge list in order,     *)
(* again and again, until one whole sweep adds nothing.                    *)

SetDelete(s, x) == SelectSeq(s, LAMBDA y : y # x)

\* a mutant of traverseScan: adding a target does not set running
RECURSIVE traverseScan_upOnly(_, _, _, _)
traverseScan_upOnly(rest, visited, running, mode) ==
  IF rest = <<>>
  THEN [visited |-> visited, running |-> running]
  ELSE LET edge == Head(rest)
           up   == /\ mode \in {"ancestors", "web"}
                   /\ ~Has(visited, edge.source)
                   /\ Has(visited, edge.target)
           v1   == IF up THEN SetAdd(visited, edge.source) ELSE visited
           down == /\ mode \in {"descendants", "web"}
                   /\ ~Has(v1, edge.target)
                   /\ Has(v1, edge.source)
           v2   == IF down THEN SetAdd(v1, edge.target) ELSE v1
       IN  traverseScan_upOnly(Tail(rest), v2, running \/ up, mode)

\* for (const edge of edges): the Set after the sweep, and whether it grew
RECURSIVE traverseScan(_, _, _, _)
traverseScan(rest, visited, running, mode) ==
  IF rest = <<>>
  THEN [visited |-> visited, running |-> running]
  ELSE LET edge == Head(rest)
           up   == /\ mode \in {"ancestors", "web"}
                   /\ ~Has(visited, edge.source)
                   /\ Has(visited, edge.target)
           v1   == IF up THEN SetAdd(visited, edge.source) ELSE visited
           down == /\ mode \in {"descendants", "web"}
                   /\ ~Has(v1, edge.target)
                   /\ Has(v1, edge.source)
           v2   == IF down THEN SetAdd(v1, edge.target) ELSE v1
       IN  traverseScan(Tail(rest), v2, running \/ up \/ down, mode)

\* a mutant of traverseWhile: the edge list is swept once
traverseWhile_once(visited, edges, mode) ==
  traverseScan(edges, visited, FALSE, mode).visited

\* while (running)
RECURSIVE traverseWhile(_, _, _)
traverseWhile(visited, edges, mode) ==
  LET scan == traverseScan(edges, visited, FALSE, mode)
  IN  IF scan.running THEN traverseWhile(scan.visited, edges, mode) ELSE scan.visited

\* a mutant of traverseSweep: visited.delete(id) is left out
traverseSweep_keepId(id, edges, mode) == traverseWhile(<<id>>, edges, mode)

\* the modes other than "tree"
traverseSweep(id, edges, mode) == SetDelete(traverseWhile(<<id>>, edges, mode), id)

traverse(id, edges, mode) ==
  IF mode = "tree"
  THEN AddAll(<<id>>, traverseSweep(id, edges, "ancestors")
                        \o traverseSweep(id, edges, "descendants"))
  ELSE traverseSweep(id, edges, mode)

Traversals == {"ancestors", "descendants", "web", "tree"}

----------------------------------------------------------------------------
(* undirected and postman *)

reversed(edge) == [source |-> edge.target, target |-> edge.source]

\* a mutant of undirected: the reciprocal of a self-loop is left out
undirected_noLoopTwice(edges) ==
  Flatten(MapSeq(edges, LAMBDA edge : IF edge.source = edge.target
                                      THEN <<edge>>
                                      ELSE <<edge, reversed(edge)>>))

undirected(edges) == Flatten(MapSeq(edges, LAMBDA edge : <<edge, reversed(edge)>>))

oddNodes(edges) ==
  SelectSeq(everything(edges), LAMBDA id : Len(related(id, edges)) % 2 = 1)

\* a mutant of oddPairs: each pair is formed once, from its smaller vertex
oddPairs_unordered(odd) ==
  Flatten(MapSeq(odd, LAMBDA id :
    MapSeq(SelectSeq(odd, LAMBDA otherId : otherId > id),
           LAMBDA otherId : <<id, otherId>>)))

oddPairs(odd) ==
  Flatten(MapSeq(odd, LAMBDA id :
    MapSeq(SelectSeq(odd, LAMBDA otherId : otherId # id),
           LAMBDA otherId : <<id, otherId>>)))

postman(edges) ==
  MapSeq(oddPairs(oddNodes(edges)),
         LAMBDA pair : dijkstraShortestPath(pair[1], pair[2], edges))

----------------------------------------------------------------------------
(* The rendering layer: graphData.nodes is the set of the ids that have a   *)
(* node entry; the node of id n is <<n>>, and what find returns when it     *)
(* finds none is Undefined.                                                 *)

Undefined == <<>>

\* graphData.nodes.find((n) => n.id === node)
findNode(graphNodes, node) == IF node \in graphNodes THEN <<node>> ELSE Undefined

\* a mutant of edgesFromNodes: the ids are compared with the ids supplied
edgesFromNodes_byId(nodes, graphNodes, graphLinks) ==
  SelectSeq(graphLinks, LAMBDA link : Has(nodes, link.source) /\ Has(nodes, link.target))

edgesFromNodes(nodes, graphNodes, graphLinks) ==
  LET populatedNodes == MapSeq(nodes, LAMBDA node : findNode(graphNodes, node))
      found(x) == \E i \in DOMAIN populatedNodes :
                    populatedNodes[i] # Undefined /\ populatedNodes[i][1] = x
  IN  SelectSeq(graphLinks, LAMBDA link : found(link.source) /\ found(link.target))

\* the ids of a set, as an array in ascending order
RECURSIVE Ascending(_)
Ascending(S) ==
  IF S = {}
  THEN <<>>
  ELSE LET least == CHOOSE x \in S : \A y \in S : x <= y
       IN  <<least>> \o Ascending(S \ {least})

\* getData past its subjectId === 0 test, with the branch its endSubjectId test
\* takes; c holds the controls (c.id is subjectId, c.end endSubjectId) and
\* c.graphNodes the ids of graphData.nodes; issued lists the engine's queries
\* in the order they are called
getDataBranch(path, c, graphLinks) ==
  LET initialEdges == IF c.undirectedGraph THEN undirected(graphLinks) ELSE graphLinks
      ask(fn)      == [fn |-> fn, id |-> c.id, end |-> IF path THEN c.end ELSE 0]
      n1    == IF c.showDescendants THEN descendants(c.id, initialEdges) ELSE <<>>
      n2    == IF c.showAncestors THEN ancestors(c.id, initialEdges) ELSE <<>>
      n3    == IF c.showSelf THEN <<c.id>> ELSE <<>>
      nodes == IF path
               THEN dijkstraShortestPath(c.id, c.end, initialEdges)
               ELSE n1 \o n2 \o n3
      issued == IF path
                THEN <<ask("dijkstraShortestPath")>>
                ELSE (IF c.showDescendants THEN <<ask("descendants")>> ELSE <<>>)
                     \o (IF c.showAncestors THEN <<ask("ancestors")>> ELSE <<>>)
  IN  [whole  |-> FALSE,
       nodes  |-> SelectSeq(Ascending(c.graphNodes), LAMBDA node : Has(nodes, node)),
       links  |-> edgesFromNodes(nodes, c.graphNodes, graphLinks),
       issued |-> issued]

\* return graphData
wholeGraph(c, graphLinks) ==
  [whole |-> TRUE, nodes |-> Ascending(c.graphNodes), links |-> graphLinks,
   issued |-> <<>>]

\* a mutant of getData: the path is asked for when an end subject is given
getData_pathToEnd(c, graphLinks) ==
  IF c.id = 0
  THEN wholeGraph(c, graphLinks)
  ELSE getDataBranch(c.end # 0, c, graphLinks)

getData(c, graphLinks) ==
  IF c.id = 0
  THEN wholeGraph(c, graphLinks)
  ELSE getDataBranch(c.end = 0, c, graphLinks)

----------------------------------------------------------------------------
(* The recursive travel of the second search module and the recursive      *)
(* ancestors/descendants of the first: what one activation works on, and   *)
(* what it returns once every recursive call has returned.                 *)

\* the engine's call stack holds StackLimit activations; one more throws RangeError
StackLimit == MaxVertex + 2

travelNeighbours(fn, direction, id, edges) ==
  CASE fn \in {"travel", "travelAndSelf"} ->
         IF direction = "up" THEN parents(id, edges) ELSE children(id, edges)
    [] fn = "search_ancestors" -> search_parents(id, edges)
    [] fn = "search_descendants" -> search_children(id, edges)

travelResult(fn, nbrs, got) ==
  IF fn \in {"travel", "travelAndSelf"} THEN uniqueNumbers(nbrs \o got) ELSE nbrs \o got

----------------------------------------------------------------------------
VARIABLES
  links,      \* the edge list, loaded once
  pc,         \* "idle", "loop", "dfs", "dijkstra", "scan", "pq", "recursing", "done"
              \* or "RangeError"
  call,       \* the function called and its arguments
  ret,        \* the array it returned
  retBool,    \* the boolean it returned (hasCycle)
  queue,      \* ancestors/descendants: the worklist; dfs: the stack;
              \* PriorityQueue and dijkstraShortestPath: _queue
  resultSet,  \* ancestors/descendants: ancestorsArray / descendantsArray; dfs: visited
  frames,     \* travel and the recursive ancestors/descendants: the activations
  workers,    \* asyncDijkstraShortestPath: the calls dispatched, each with its own locals
  count       \* the iterations (scans, enqueues) the running call has made so far

vars == <<links, pc, call, ret, retBool, queue, resultSet, frames, workers, count>>

Call(fn, id) ==
  [fn |-> fn, id |-> id, end |-> 0, maxDepth |-> 0, direction |-> "", mode |-> "",
   nodes |-> <<>>, graphNodes |-> {}, undirectedGraph |-> FALSE,
   showDescendants |-> FALSE, showAncestors |-> FALSE, showSelf |-> FALSE]

Idle == Call("idle", 0)

Init ==
  /\ links \in EdgeLists
  /\ pc = "idle"
  /\ call = Idle
  /\ ret = <<>>
  /\ retBool = FALSE
  /\ queue = <<>>
  /\ resultSet = <<>>
  /\ frames = <<>>
  /\ workers = <<>>
  /\ count = 0

\* a mutant of Query: the callee takes the last edge off the array it was given
Query_popsEdges(c, value) ==
  /\ pc = "idle"
  /\ pc' = "done"
  /\ call' = c
  /\ ret' = value
  /\ links' = SubSeq(links, 1, Len(links) - 1)
  /\ UNCHANGED <<retBool, queue, resultSet, frames, workers, count>>

\* a pure query: called and returned in one step
Query(c, value) ==
  /\ pc = "idle"
  /\ pc' = "done"
  /\ call' = c
  /\ ret' = value
  /\ UNCHANGED <<links, retBool, queue, resultSet, frames, workers, count>>

CallParents == \E id \in Vertices : Query(Call("parents", id), parents(id, links))

CallChildren == \E id \in Vertices : Query(Call("children", id), children(id, links))

CallAncestors == \E id \in Vertices : Query(Call("ancestors", id), ancestors(id, links))

CallDescendants ==
  \E id \in Vertices : Query(Call("descendants", id), descendants(id, links))

CallSiblings == \E id \in Vertices : Query(Call("siblings", id), siblings(id, links))

CallCousins == \E id \in Vertices : Query(Call("cousins", id), cousins(id, links))

CallRelated == \E id \in Vertices : Query(Call("related", id), related(id, links))

CallIsolatedNodes == Query(Call("isolatedNodes", 0), isolatedNodes(links))

CallEverything == Query(Call("everything", 0), everything(links))

CallParentsAndSelf ==
  \E id \in Vertices : Query(Call("parentsAndSelf", id), parentsAndSelf(id, links))

CallChildrenAndSelf ==
  \E id \in Vertices : Query(Call("childrenAndSelf", id), childrenAndSelf(id, links))

CallAncestorsAndSelf ==
  \E id \in Vertices : Query(Call("ancestorsAndSelf", id), ancestorsAndSelf(id, links))

CallDescendantsAndSelf ==
  \E id \in Vertices :
    Query(Call("descendantsAndSelf", id), descendantsAndSelf(id, links))

CallSiblingsAndSelf ==
  \E id \in Vertices : Query(Call("siblingsAndSelf", id), siblingsAndSelf(id, links))

CallCousinsAndSelf ==
  \E id \in Vertices : Query(Call("cousinsAndSelf", id), cousinsAndSelf(id, links))

CallRelatedAndSelf ==
  \E id \in Vertices : Query(Call("relatedAndSelf", id), relatedAndSelf(id, links))

CallMaze == \E start \in Vertices : Query(Call("maze", start), maze(start, links))

CallBfs == \E start \in Vertices : Query(Call("bfs", start), bfs(start, links))

CallDfs ==
  \E start \in Vertices, maxDepth \in 0..MaxDepth :
    Query([Call("dfs", start) EXCEPT !.maxDepth = maxDepth], dfs(start, links, maxDepth))

\* dfs with a maxDepth above MaxDepth, up to the number of vertices there are
CallDfsDeep ==
  \E start \in Vertices, maxDepth \in MaxDepth + 1 .. MaxVertex :
    Query([Call("dfs", start) EXCEPT !.maxDepth = maxDepth], dfs(start, links, maxDepth))

CallShortestPath ==
  \E start \in Vertices, end \in Vertices :
    Query([Call("shortestPath", start) EXCEPT !.end = end],
          shortestPath(start, end, links))

CallDijkstraShortestPath ==
  \E source \in Vertices, target \in Vertices :
    Query([Call("dijkstraShortestPath", source) EXCEPT !.end = target],
          dijkstraShortestPath(source, target, links))

CallTraverse ==
  \E id \in Vertices, mode \in Traversals :
    Query([Call("traverse", id) EXCEPT !.mode = mode], traverse(id, links, mode))

CallUndirected == Query(Call("undirected", 0), undirected(links))

CallPostman == Query(Call("postman", 0), postman(links))

CallEdgesFromNodes ==
  \E S \in SUBSET Vertices, graphNodes \in SUBSET Vertices :
    Query([Call("edgesFromNodes", 0) EXCEPT !.nodes = Ascending(S),
                                            !.graphNodes = graphNodes],
          edgesFromNodes(Ascending(S), graphNodes, links))

\* graphData.nodes: every vertex has an entry, or every vertex but the last
NodeSets == {Vertices, Vertices \ {MaxVertex}}

CallGetData ==
  \E subjectId \in 0..MaxVertex, endSubjectId \in 0..MaxVertex,
     graphNodes \in NodeSets,
     undirectedGraph \in BOOLEAN, showDescendants \in BOOLEAN,
     showAncestors \in BOOLEAN, showSelf \in BOOLEAN :
    LET c == [Call("getData", subjectId) EXCEPT !.end = endSubjectId,
                                                !.graphNodes = graphNodes,
                                                !.undirectedGraph = undirectedGraph,
                                                !.showDescendants = showDescendants,
                                                !.showAncestors = showAncestors,
                                                !.showSelf = showSelf]
    IN  Query(c, getData(c, links))

CallHasCycle ==
  /\ pc = "idle"
  /\ pc' = "done"
  /\ call' = Call("hasCycle", 0)
  /\ retBool' = hasCycle(links)
  /\ UNCHANGED <<links, ret, queue, resultSet, frames, workers, count>>

----------------------------------------------------------------------------
(* ancestors and descendants, one iteration of the while loop at a time *)

StartAncestors ==
  \E id \in Vertices :
    /\ pc = "idle"
    /\ pc' = "loop"
    /\ call' = Call("ancestors", id)
    /\ queue' = parents(id, links)
    /\ resultSet' = <<>>
    /\ UNCHANGED <<links, ret, retBool, frames, workers, count>>

StartDescendants ==
  \E id \in Vertices :
    /\ pc = "idle"
    /\ pc' = "loop"
    /\ call' = Call("descendants", id)
    /\ queue' = children(id, links)
    /\ resultSet' = <<>>
    /\ UNCHANGED <<links, ret, retBool, frames, workers, count>>

\* the worklist never grows beyond this (QueueBounded); the loop is followed no further
QueueLimit == MaxVertex * MaxVertex

\* the body of while (queue.length > 0)
LoopStep ==
  /\ pc = "loop"
  /\ Len(queue) > 0
  /\ Len(queue) <= QueueLimit
  /\ LET nextId == queue[Len(queue)]
         st == WorkStep(queue, resultSet,
                        IF call.fn = "ancestors"
                        THEN parents(nextId, links)
                        ELSE children(nextId, links))
     IN  /\ queue' = st.queue
         /\ resultSet' = st.set
  /\ UNCHANGED <<links, pc, call, ret, retBool, frames, workers, count>>

\* return Array.from(ancestorsArray)
LoopExit ==
  /\ pc = "loop"
  /\ Len(queue) = 0
  /\ pc' = "done"
  /\ ret' = resultSet
  /\ resultSet' = <<>>
  /\ UNCHANGED <<links, call, retBool, queue, frames, workers, count>>

----------------------------------------------------------------------------
(* dfs, one iteration of the while loop at a time: queue is its stack,     *)
(* resultSet its visited Set and ret its result.                           *)

StartDfs ==
  \E start \in Vertices, maxDepth \in -1..MaxDepth :
    /\ pc = "idle"
    /\ pc' = "dfs"
    /\ call' = [Call("dfs", start) EXCEPT !.maxDepth = maxDepth]
    /\ queue' = <<[id |-> start, depth |-> 0]>>
    /\ resultSet' = <<>>
    /\ ret' = <<>>
    /\ UNCHANGED <<links, retBool, frames, workers, count>>

DfsStep ==
  /\ pc = "dfs"
  /\ Len(queue) > 0
  /\ LET st == dfsStep(queue, resultSet, ret, links, call.maxDepth)
     IN  /\ queue' = st.stack
         /\ resultSet' = st.visited
         /\ ret' = st.result
  /\ UNCHANGED <<links, pc, call, retBool, frames, workers, count>>

\* return result
DfsExit ==
  /\ pc = "dfs"
  /\ Len(queue) = 0
  /\ pc' = "done"
  /\ UNCHANGED <<links, call, ret, retBool, queue, resultSet, frames, workers, count>>

----------------------------------------------------------------------------
(* A PriorityQueue on its own: elements <<priority, serial>> are enqueued   *)
(* and dequeued in any order; count is the number enqueued so far and the   *)
(* serial of an element is its place in the order of enqueueing.            *)

MaxEnqueued == 3

InitPriorityQueue ==
  /\ links = <<>>
  /\ pc = "pq"
  /\ call = Call("PriorityQueue", 0)
  /\ ret = <<>>
  /\ retBool = FALSE
  /\ queue = <<>>
  /\ resultSet = <<>>
  /\ frames = <<>>
  /\ workers = <<>>
  /\ count = 0

Enqueue ==
  \E priority \in 0..MaxDepth :
    /\ pc = "pq"
    /\ count < MaxEnqueued
    /\ queue' = enqueue(queue, <<priority, count + 1>>)
    /\ count' = count + 1
    /\ UNCHANGED <<links, pc, call, ret, retBool, resultSet, frames, workers>>

Dequeue ==
  /\ pc = "pq"
  /\ Len(queue) > 0
  /\ ret' = <<dequeue(queue).element>>
  /\ queue' = dequeue(queue).queue
  /\ UNCHANGED <<links, pc, call, retBool, resultSet, frames, workers, count>>

(* traverse in the modes other than "tree", one sweep of the edge list at a  *)
(* time: resultSet is visited, retBool is running and count the sweeps made. *)

StartTraverse ==
  \E id \in Vertices, mode \in Traversals \ {"tree"} :
    /\ pc = "idle"
    /\ pc' = "scan"
    /\ call' = [Call("traverse", id) EXCEPT !.mode = mode]
    /\ resultSet' = <<id>>
    /\ retBool' = TRUE
    /\ count' = 0
    /\ UNCHANGED <<links, ret, queue, frames, workers>>

ScanStep ==
  /\ pc = "scan"
  /\ retBool
  /\ LET scan == traverseScan(links, resultSet, FALSE, call.mode)
     IN  /\ resultSet' = scan.visited
         /\ retBool' = scan.running
  /\ count' = count + 1
  /\ UNCHANGED <<links, pc, call, ret, queue, frames, workers>>

ScanExit ==
  /\ pc = "scan"
  /\ ~retBool
  /\ pc' = "done"
  /\ ret' = SetDelete(resultSet, call.id)
  /\ UNCHANGED <<links, call, retBool, queue, resultSet, frames, workers, count>>

----------------------------------------------------------------------------
(* dijkstraShortestPath, one iteration of the while loop at a time: queue   *)
(* is the _queue of its PriorityQueue and resultSet its visited Set.        *)

StartDijkstra ==
  \E source \in Vertices, target \in Vertices :
    /\ pc = "idle"
    /\ pc' = "dijkstra"
    /\ call' = [Call("dijkstraShortestPath", source) EXCEPT !.end = target]
    /\ queue' = enqueue(<<>>, <<0, <<source>>>>)
    /\ resultSet' = <<>>
    /\ UNCHANGED <<links, ret, retBool, frames, workers, count>>

DijkstraStep ==
  /\ pc = "dijkstra"
  /\ Len(queue) > 0
  /\ LET st == dijkstraStep(queue, resultSet, call.end, links)
     IN  /\ queue' = st.queue
         /\ resultSet' = st.visited
         /\ ret' = st.path
         /\ pc' = IF st.returned THEN "done" ELSE "dijkstra"
  /\ UNCHANGED <<links, call, retBool, frames, workers, count>>

\* return []
DijkstraExit ==
  /\ pc = "dijkstra"
  /\ Len(queue) = 0
  /\ pc' = "done"
  /\ ret' = <<>>
  /\ UNCHANGED <<links, call, retBool, queue, resultSet, frames, workers, count>>

----------------------------------------------------------------------------
(* asyncDijkstraShortestPath: every call dispatched runs dijkstraShortestPath *)
(* on its own, one iteration of the while loop at a time, whatever the other  *)
(* calls are doing; workers holds, for each call, its arguments, its queue,   *)
(* its visited Set, the iterations it has made and, once it has resolved,     *)
(* its result.                                                                *)

MaxWorkers == 2

\* a mutant of workerLocals: visited is one Set that every call works on
workerLocals_shared(w, ws) == [ws[w] EXCEPT !.visited = ws[1].visited]

\* the queue and the visited Set are allocated inside the call
workerLocals(w, ws) == ws[w]

Dispatch ==
  \E source \in Vertices, target \in Vertices :
    /\ pc = "idle"
    /\ Len(workers) < MaxWorkers
    /\ workers' = Append(workers,
                         [source  |-> source,
                          target  |-> target,
                          state   |-> "running",
                          queue   |-> enqueue(<<>>, <<0, <<source>>>>),
                          visited |-> <<>>,
                          steps   |-> 0,
                          result  |-> <<>>])
    /\ UNCHANGED <<links, pc, call, ret, retBool, queue, resultSet, frames, count>>

WorkerStep ==
  \E w \in DOMAIN workers :
    /\ workers[w].state = "running"
    /\ LET my == workerLocals(w, workers)
       IN  IF Len(my.queue) > 0
           THEN LET st == dijkstraStep(my.queue, my.visited, my.target, links)
                IN  workers' = [workers EXCEPT ![w].queue = st.queue,
                                               ![w].visited = st.visited,
                                               ![w].steps = @ + 1,
                                               ![w].state = IF st.returned
                                                            THEN "resolved"
                                                            ELSE "running",
                                               ![w].result = st.path]
           ELSE workers' = [workers EXCEPT ![w].state = "resolved", ![w].result = <<>>]
    /\ UNCHANGED <<links, pc, call, ret, retBool, queue, resultSet, frames, count>>

----------------------------------------------------------------------------
(* travel, travelAndSelf and the recursive ancestors/descendants, one call *)
(* or return at a time.  An activation holds the vertex it was called for, *)
(* the neighbours it has still to recurse into and what the recursive      *)
(* calls have returned so far.                                             *)

Activation(fn, direction, id) ==
  [id |-> id, todo |-> travelNeighbours(fn, direction, id, links), got |-> <<>>]

StartRecursive(fn, direction) ==
  \E id \in Vertices :
    /\ pc = "idle"
    /\ pc' = "recursing"
    /\ call' = [Call(fn, id) EXCEPT !.direction = direction]
    /\ frames' = <<Activation(fn, direction, id)>>
    /\ UNCHANGED <<links, ret, retBool, queue, resultSet, workers, count>>

StartTravel == \E direction \in {"up", "down"} : StartRecursive("travel", direction)

StartTravelAndSelf ==
  \E direction \in {"up", "down"} : StartRecursive("travelAndSelf", direction)

StartSearchAncestors == StartRecursive("search_ancestors", "up")

StartSearchDescendants == StartRecursive("search_descendants", "down")

\* flatMap calls the function for the next neighbour
RecursiveCall ==
  /\ pc = "recursing"
  /\ LET top == frames[Len(frames)]
     IN  /\ top.todo # <<>>
         /\ IF Len(frames) < StackLimit
            THEN /\ frames' = [frames EXCEPT ![Len(frames)].todo = Tail(top.todo)]
                                \o <<Activation(call.fn, call.direction, Head(top.todo))>>
                 /\ pc' = pc
            ELSE /\ frames' = <<>>
                 /\ pc' = "RangeError"
  /\ UNCHANGED <<links, call, ret, retBool, queue, resultSet, workers, count>>

\* every neighbour is done: the activation returns to its caller
RecursiveReturn ==
  /\ pc = "recursing"
  /\ LET top == frames[Len(frames)]
         value == travelResult(call.fn,
                               travelNeighbours(call.fn, call.direction, top.id, links),
                               top.got)
     IN  /\ top.todo = <<>>
         /\ IF Len(frames) > 1
            THEN /\ frames' = [SubSeq(frames, 1, Len(frames) - 1)
                                 EXCEPT ![Len(frames) - 1].got = @ \o value]
                 /\ UNCHANGED <<pc, ret, workers, count>>
            ELSE /\ frames' = <<>>
                 /\ pc' = "done"
                 /\ ret' = IF call.fn = "travelAndSelf"
                           THEN uniqueNumbers(Append(value, call.id))
                           ELSE value
  /\ UNCHANGED <<links, call, retBool, queue, resultSet, workers, count>>

----------------------------------------------------------------------------
(* Specifications: one per component of the engine *)

\* ancestors and descendants
NextAncestry == CallAncestors \/ CallDescendants

SpecAncestry == Init /\ [][NextAncestry]_vars

\* the relationship queries and the traversals of the first search.ts
NextQueries ==
  \/ CallParents
  \/ CallChildren
  \/ CallAncestors
  \/ CallDescendants
  \/ CallSiblings
  \/ CallCousins
  \/ CallRelated
  \/ CallEverything
  \/ CallMaze
  \/ CallBfs
  \/ CallDfs

SpecQueries == Init /\ [][NextQueries]_vars

\* the AndSelf variants
NextAndSelf ==
  \/ CallParentsAndSelf
  \/ CallChildrenAndSelf
  \/ CallAncestorsAndSelf
  \/ CallDescendantsAndSelf
  \/ CallSiblingsAndSelf
  \/ CallCousinsAndSelf
  \/ CallRelatedAndSelf

SpecAndSelf == Init /\ [][NextAndSelf]_vars

\* the path finders
NextPath == CallShortestPath \/ CallDijkstraShortestPath

SpecPath == Init /\ [][NextPath]_vars

\* the cycle detector
NextCycle == CallHasCycle

SpecCycle == Init /\ [][NextCycle]_vars

\* the worklist of ancestors/descendants; a function that was called runs on
NextWorklist == StartAncestors \/ StartDescendants \/ LoopStep \/ LoopExit

SpecWorklist == Init /\ [][NextWorklist]_vars /\ WF_vars(LoopStep) /\ WF_vars(LoopExit)

\* the recursive traversals
NextTraverse == CallTraverse

SpecTraverse == Init /\ [][NextTraverse]_vars

NextSearch == CallMaze \/ CallBfs \/ CallDfs

SpecSearch == Init /\ [][NextSearch]_vars

\* isolatedNodes, with related on every vertex beside it
NextIsolated == CallIsolatedNodes \/ CallRelated

SpecIsolated == Init /\ [][NextIsolated]_vars

SpecGetData == Init /\ [][CallGetData]_vars

NextReach == CallMaze \/ CallBfs \/ CallDfs \/ CallDfsDeep

SpecReach == Init /\ [][NextReach]_vars

NextDfs == StartDfs \/ DfsStep \/ DfsExit

SpecDfs == Init /\ [][NextDfs]_vars

NextAbsent ==
  \/ CallParents
  \/ CallChildren
  \/ CallAncestors
  \/ CallDescendants
  \/ CallSiblings
  \/ CallCousins
  \/ CallRelated
  \/ CallEverything
  \/ CallTraverse

SpecAbsent == Init /\ [][NextAbsent]_vars

NextUndirected == CallUndirected

SpecUndirected == Init /\ [][NextUndirected]_vars

NextPostman == CallPostman

SpecPostman == Init /\ [][NextPostman]_vars

NextEngine ==
  \/ NextQueries
  \/ NextAndSelf
  \/ CallTraverse
  \/ CallDijkstraShortestPath
  \/ CallPostman
  \/ CallHasCycle
  \/ CallUndirected

SpecEngine == Init /\ [][NextEngine]_vars

NextIndex == CallParents \/ CallChildren \/ CallEverything

SpecIndex == Init /\ [][NextIndex]_vars

NextSiblings == CallSiblings

SpecSiblings == Init /\ [][NextSiblings]_vars

NextEdgesFromNodes == CallEdgesFromNodes

SpecEdgesFromNodes == Init /\ [][NextEdgesFromNodes]_vars

InitQueue == Init \/ InitPriorityQueue

NextQueue == Enqueue \/ Dequeue \/ StartDijkstra \/ DijkstraStep \/ DijkstraExit

SpecQueue == InitQueue /\ [][NextQueue]_vars

NextScan == StartTraverse \/ ScanStep \/ ScanExit

SpecScan == Init /\ [][NextScan]_vars

NextAsync == Dispatch \/ WorkerStep

SpecAsync == Init /\ [][NextAsync]_vars

NextRecursive ==
  \/ StartTravel
  \/ StartTravelAndSelf
  \/ StartSearchAncestors
  \/ StartSearchDescendants
  \/ RecursiveCall
  \/ RecursiveReturn

SpecRecursive == Init /\ [][NextRecursive]_vars

\* the whole engine
Next ==
  \/ NextQueries
  \/ NextAndSelf
  \/ NextPath
  \/ CallHasCycle
  \/ CallTraverse
  \/ CallUndirected
  \/ CallPostman
  \/ NextWorklist
  \/ NextDfs
  \/ StartDijkstra
  \/ DijkstraStep
  \/ DijkstraExit
  \/ CallEdgesFromNodes
  \/ NextAsync
  \/ CallGetData
  \/ CallIsolatedNodes
  \/ CallDfsDeep
  \/ NextScan
  \/ NextRecursive

Spec == Init /\ [][Next]_vars

----------------------------------------------------------------------------
(* What the claims are measured against: reachability and distance along   *)
(* directed edges, computed on sets of vertices.                           *)

Successors(S, edges) ==
  {edges[i].target : i \in {j \in DOMAIN edges : edges[j].source \in S}}

RECURSIVE Closure(_, _)
Closure(S, edges) ==
  LET N == S \cup Successors(S, edges)
  IN  IF N = S THEN S ELSE Closure(N, edges)

\* a directed path of one or more edges leads from u to v
DirectedPath(u, v, edges) == v \in Closure(Successors({u}, edges), edges)

OnDirectedCycle(v, edges) == DirectedPath(v, v, edges)

RECURSIVE LayerOf(_, _, _, _, _)
LayerOf(frontier, seen, k, b, edges) ==
  IF b \in frontier
  THEN k
  ELSE LET further == Successors(frontier, edges) \ seen
       IN  IF further = {} THEN -1 ELSE LayerOf(further, seen \cup further, k + 1, b, edges)

\* the number of edges of a shortest directed path from a to b, -1 when there is none
BfsDistance(a, b, edges) == LayerOf({a}, {a}, 0, b, edges)

IsEdge(x, y, edges) == \E i \in DOMAIN edges : edges[i] = [source |-> x, target |-> y]

Returned(fn) == pc = "done" /\ call.fn = fn

\* the worklist stays within QueueLimit, so LoopStep's guard never cuts the loop short
QueueBounded == Len(queue) <= QueueLimit

\* the loop of ancestors/descendants, taken step by step, returns what the
\* function returns
LoopAgrees ==
  /\ Returned("ancestors") => ret = ancestors(call.id, links)
  /\ Returned("descendants") => ret = descendants(call.id, links)

----------------------------------------------------------------------------
(* The claims *)

\* C1: dijkstraShortestPath(a, b, E) returns a sequence from a to b whose
\* consecutive vertices are joined by an edge of E and whose number of hops is
\* the breadth-first distance from a to b; it returns the empty sequence when b
\* cannot be reached from a.
C1_DijkstraShortest ==
  Returned("dijkstraShortestPath") =>
    LET d == BfsDistance(call.id, call.end, links)
    IN  IF d = -1
        THEN ret = <<>>
        ELSE /\ Len(ret) = d + 1
             /\ ret[1] = call.id
             /\ ret[Len(ret)] = call.end
             /\ \A i \in 1..(Len(ret) - 1) : IsEdge(ret[i], ret[i + 1], links)

C1_Witness ==
  /\ Returned("dijkstraShortestPath")
  /\ Len(ret) = 3
  /\ Len(children(call.id, links)) = 2

\* C2: a vertex u other than id is in ancestors(id, E) exactly when a directed
\* path of one or more edges leads from u to id, and in descendants(id, E)
\* exactly when such a path leads from id to u.
C2_TransitiveClosure ==
  /\ Returned("ancestors") =>
       \A u \in Vertices \ {call.id} :
         Has(ret, u) <=> DirectedPath(u, call.id, links)
  /\ Returned("descendants") =>
       \A u \in Vertices \ {call.id} :
         Has(ret, u) <=> DirectedPath(call.id, u, links)

C2_Witness ==
  /\ Returned("descendants")
  /\ Len(children(call.id, links)) = 1
  /\ Elems(ret) = Vertices \ {call.id}

\* C3: none of parents, children, ancestors, descendants, siblings, cousins and
\* related returns the queried vertex itself.
C3_NeverSelf ==
  (/\ pc = "done"
   /\ call.fn \in {"parents", "children", "ancestors", "descendants",
                   "siblings", "cousins", "related"})
    => ~Has(ret, call.id)

\* C4: the worklist loop of ancestors and descendants comes to its end for
\* every edge list and every id.
C4_WorklistTerminates == (pc = "loop") ~> (pc = "done")

\* a vertex sits twice in the worklist before it was popped for the first time
C4_Witness ==
  /\ pc = "loop"
  /\ \E i, j \in DOMAIN queue :
       i < j /\ queue[i] = queue[j] /\ ~Has(resultSet, queue[i])

\* C5: travel, travelAndSelf and the recursive ancestors/descendants return for
\* every edge list and id: none of them runs out of call stack.
C5_RecursiveTraversalsReturn == pc # "RangeError"

\* C6: hasCycle(E) is true exactly when the graph of E has a cycle.
C6_HasCycleIffCycle ==
  Returned("hasCycle") =>
    (retBool <=> \E v \in Vertices : OnDirectedCycle(v, links))

\* C7: ancestors(v, E) and descendants(v, E) have a vertex in common exactly
\* when v lies on a directed cycle of E, a self-loop included.
C7_CommonIffOnCycle ==
  /\ Returned("ancestors") =>
       ((Elems(ret) \cap Elems(descendants(call.id, links)) # {})
          <=> OnDirectedCycle(call.id, links))
  /\ Returned("descendants") =>
       ((Elems(ancestors(call.id, links)) \cap Elems(ret) # {})
          <=> OnDirectedCycle(call.id, links))

C7_Witness ==
  /\ Returned("ancestors")
  /\ OnDirectedCycle(call.id, links)
  /\ ~IsEdge(call.id, call.id, links)
  /\ Elems(ret) \cap Elems(descendants(call.id, links)) # {}

\* C8: the arrays returned by parents, children, ancestors, descendants,
\* siblings, cousins, related, everything, bfs, dfs and maze hold no
\* identifier twice.
C8_NoDuplicates ==
  (/\ pc = "done"
   /\ call.fn \in {"parents", "children", "ancestors", "descendants", "siblings",
                   "cousins", "related", "everything", "bfs", "dfs", "maze"})
    => NoDup(ret)

\* parallel edges: the same child is listed by two edges
C8_Witness ==
  /\ Returned("children")
  /\ \E i, j \in DOMAIN links :
       i < j /\ links[i] = links[j] /\ links[i].source = call.id
  /\ Len(ret) >= 1

\* C9: each AndSelf variant returns, as a set, what its base function returns
\* together with the queried vertex, and its array holds no entry twice.
AndSelfBase(fn, id, edges) ==
  CASE fn = "parentsAndSelf" -> parents(id, edges)
    [] fn = "childrenAndSelf" -> children(id, edges)
    [] fn = "ancestorsAndSelf" -> ancestors(id, edges)
    [] fn = "descendantsAndSelf" -> descendants(id, edges)
    [] fn = "siblingsAndSelf" -> siblings(id, edges)
    [] fn = "cousinsAndSelf" -> cousins(id, edges)
    [] fn = "relatedAndSelf" -> related(id, edges)

C9_AndSelf ==
  (/\ pc = "done"
   /\ call.fn \in {"parentsAndSelf", "childrenAndSelf", "ancestorsAndSelf",
                   "descendantsAndSelf", "siblingsAndSelf", "cousinsAndSelf",
                   "relatedAndSelf"})
    => /\ Elems(ret) = Elems(AndSelfBase(call.fn, call.id, links)) \cup {call.id}
       /\ NoDup(ret)

\* the vertex is its own parent and has another parent too
C9_Witness ==
  /\ Returned("parentsAndSelf")
  /\ Has(parents(call.id, links), call.id)
  /\ Len(ret) = 2

\* C10: shortestPath(a, a, E) and dijkstraShortestPath(a, a, E) return <<a>>.
C10_PathToSelf ==
  (/\ pc = "done"
   /\ call.fn \in {"shortestPath", "dijkstraShortestPath"}
   /\ call.id = call.end)
    => ret = <<call.id>>

\* a lies on no edge of a non-empty edge list
C10_Witness ==
  /\ Returned("shortestPath")
  /\ call.id = call.end
  /\ links # <<>>
  /\ ~Has(everything(links), call.id)
  /\ ret = <<call.id>>

----------------------------------------------------------------------------
(* Reachability with the direction of the edges ignored *)

Predecessors(S, edges) ==
  {edges[i].source : i \in {j \in DOMAIN edges : edges[j].target \in S}}

RECURSIVE UndirectedClosure(_, _)
UndirectedClosure(S, edges) ==
  LET N == S \cup Successors(S, edges) \cup Predecessors(S, edges)
  IN  IF N = S THEN S ELSE UndirectedClosure(N, edges)

\* the vertices joined to v by a path that takes each edge in either direction
Component(v, edges) == UndirectedClosure({v}, edges)

\* C11: traverse(id, E, "ancestors") returns the vertex set of ancestors(id, E)
\* and traverse(id, E, "descendants") that of descendants(id, E), also when id
\* lies on a cycle or has a self-loop.
C11_TraverseIsAncestry ==
  /\ (Returned("traverse") /\ call.mode = "ancestors")
       => Elems(ret) = Elems(ancestors(call.id, links))
  /\ (Returned("traverse") /\ call.mode = "descendants")
       => Elems(ret) = Elems(descendants(call.id, links))

\* C12: in the modes "ancestors", "descendants" and "web", traverse never
\* returns id; in the mode "tree" it always does.
C12_IdOnlyInTree ==
  Returned("traverse") => (Has(ret, call.id) <=> call.mode = "tree")

\* C12 as stated: whatever the mode, "tree" included, traverse does not return id.
C12_NeverId == Returned("traverse") => ~Has(ret, call.id)

\* id lies on a directed cycle, which leads the sweep back to it
C12_Witness ==
  /\ Returned("traverse")
  /\ call.mode # "tree"
  /\ OnDirectedCycle(call.id, links)
  /\ ret # <<>>
  /\ ~Has(ret, call.id)

\* C13: traverse(id, E, "web") returns exactly the vertices other than id that
\* an undirected path joins to id, in whatever order E lists its edges.
C13_WebIsComponent ==
  (Returned("traverse") /\ call.mode = "web")
    => /\ Elems(ret) = Component(call.id, links) \ {call.id}
       /\ NoDup(ret)

\* a vertex is returned that no directed path joins to id in either direction
\* and that the first sweep over E does not find
C13_Witness ==
  /\ Returned("traverse")
  /\ call.mode = "web"
  /\ \E v \in Elems(ret) :
       /\ ~DirectedPath(call.id, v, links)
       /\ ~DirectedPath(v, call.id, links)
       /\ ~Has(traverseScan(links, <<call.id>>, FALSE, "web").visited, v)

\* id is an endpoint of no edge
Absent(id, edges) == \A i \in DOMAIN edges : edges[i].source # id /\ edges[i].target # id

RelationshipQueries ==
  {"parents", "children", "ancestors", "descendants", "siblings", "cousins", "related"}

\* C19: for an id that is an endpoint of no edge of E, the seven relationship
\* queries and traverse in the modes "ancestors", "descendants" and "web"
\* return the empty collection, traverse in the mode "tree" returns id alone,
\* and everything(E) does not hold id.
C19_AbsentId ==
  /\ (pc = "done" /\ call.fn \in RelationshipQueries /\ Absent(call.id, links))
       => ret = <<>>
  /\ (Returned("traverse") /\ Absent(call.id, links))
       => ret = IF call.mode = "tree" THEN <<call.id>> ELSE <<>>
  /\ Returned("everything") => \A v \in Vertices : Absent(v, links) => ~Has(ret, v)

\* C19 as stated: traverse returns the empty set in every mode, "tree" included.
C19_AbsentIdEmpty ==
  (/\ pc = "done"
   /\ call.fn \in RelationshipQueries \cup {"traverse"}
   /\ Absent(call.id, links))
    => ret = <<>>

\* the edge list is full and the vertex asked for is on none of its edges
C19_Witness ==
  /\ Returned("ancestors")
  /\ Len(links) = MaxEdges
  /\ Absent(call.id, links)
  /\ ret = <<>>

\* dfs taken step by step returns what the function returns
DfsAgrees == Returned("dfs") => ret = dfs(call.id, links, call.maxDepth)

\* C14: bfs, maze and dfs follow an edge from its source to its target only:
\* every vertex they return is start or is reached from start by a directed
\* path, so a vertex joined to start only by edges that point towards start
\* is not visited.
C14_SearchIsDirected ==
  (pc = "done" /\ call.fn \in {"maze", "bfs", "dfs"})
    => /\ Has(ret, call.id)
       /\ \A v \in Elems(ret) : v = call.id \/ DirectedPath(call.id, v, links)
       /\ call.fn \in {"maze", "bfs"}
            => \A v \in Vertices : DirectedPath(call.id, v, links) => Has(ret, v)

\* C14 as stated: the parents of a visited vertex are its neighbours as well,
\* so the source of an edge that points to start is visited.
C14_SearchIsUndirected ==
  (/\ pc = "done"
   /\ call.fn \in {"maze", "bfs", "dfs"}
   /\ call.fn = "dfs" => call.maxDepth >= 1)
    => \A u \in Vertices : IsEdge(u, call.id, links) => Has(ret, u)

\* an edge points to start from a vertex that start does not lead to
C14_Witness ==
  /\ Returned("bfs")
  /\ Len(ret) > 1
  /\ \E u \in Vertices :
       /\ IsEdge(u, call.id, links)
       /\ ~DirectedPath(call.id, u, links)
       /\ ~Has(ret, u)

\* every vertex dfs has taken so far is start or lies within maxDepth hops of
\* start, and none was taken twice
DfsWithinDepth ==
  (call.fn = "dfs" /\ pc \in {"dfs", "done"} /\ call.maxDepth >= 0)
    => /\ \A v \in Elems(ret) :
            v = call.id \/ BfsDistance(call.id, v, links) \in 1..call.maxDepth
       /\ \A i \in DOMAIN queue : queue[i].depth \in 0..call.maxDepth
       /\ NoDup(ret)
       /\ Elems(ret) = Elems(resultSet)

\* an iteration that pops a vertex already visited drops the entry and does
\* nothing else: nothing is pushed, whatever the depth of the entry
DfsFirstVisitWins ==
  (/\ pc = "dfs"
   /\ call.maxDepth >= 0
   /\ Len(queue) > 0
   /\ Has(resultSet, queue[Len(queue)].id))
    => /\ queue' = SubSeq(queue, 1, Len(queue) - 1)
       /\ ret' = ret
       /\ resultSet' = resultSet

\* C15: every vertex returned by dfs(start, E, maxDepth), maxDepth >= 0, is
\* start or is reached from start within maxDepth hops, and the first visit
\* wins: a vertex once popped is never taken or expanded again, even when a
\* later stack entry reaches it with a smaller depth.
C15_DfsDepthFirstVisit == []DfsWithinDepth /\ [][DfsFirstVisitWins]_vars

\* the entry on top of the stack is the only one that reaches its vertex in
\* one hop, and the vertex was already visited, two hops from start
C15_Witness ==
  /\ pc = "dfs"
  /\ call.maxDepth = 2
  /\ Len(queue) > 0
  /\ LET top == queue[Len(queue)]
     IN  /\ top.depth = 1
         /\ top.id # call.id
         /\ Has(resultSet, top.id)
         /\ Cardinality({i \in DOMAIN links :
                           links[i] = [source |-> call.id, target |-> top.id]}) = 1

\* C16: dfs called with a negative maxDepth fails with a validation error: it
\* returns no list.
C16_NegativeDepthFails == ~(Returned("dfs") /\ call.maxDepth < 0)

\* the vertices whose related array has an odd length
OddVertices(edges) == {v \in Elems(everything(edges)) : Len(related(v, edges)) % 2 = 1}

\* the place of an odd vertex among the odd vertices, in the order of everything(E)
OddRank(v, edges) ==
  LET all    == everything(edges)
      pos(x) == CHOOSE i \in DOMAIN all : all[i] = x
  IN  Cardinality({x \in OddVertices(edges) : pos(x) <= pos(v)})

\* C17: postman(E) forms every ordered pair (a, b) of distinct odd vertices,
\* a and then b in the order of everything(E), and returns one path for each,
\* k * (k - 1) paths for k odd vertices: the path of the pair (a, b) is
\* dijkstraShortestPath(a, b, E).
C17_PostmanOrderedPairs ==
  Returned("postman")
    => LET odd == OddVertices(links)
           k   == Cardinality(odd)
       IN  /\ Len(ret) = k * (k - 1)
           /\ \A a \in odd :
                \A b \in odd \ {a} :
                  LET ra == OddRank(a, links)
                      rb == OddRank(b, links)
                  IN  ret[(ra - 1) * (k - 1) + (IF rb > ra THEN rb - 1 ELSE rb)]
                        = dijkstraShortestPath(a, b, links)

\* C17 as stated: one path for each unordered pair, k * (k - 1) / 2 paths.
C17_PostmanUnorderedPairs ==
  Returned("postman")
    => LET k == Cardinality(OddVertices(links))
       IN  Len(ret) = (k * (k - 1)) \div 2

\* two odd vertices: a path leads from the first to the second and none back
C17_Witness ==
  /\ Returned("postman")
  /\ Cardinality(OddVertices(links)) = 2
  /\ Len(ret) = 2
  /\ ret[1] # <<>>
  /\ ret[2] = <<>>

\* how many times the edge from x to y stands in the list
Count(x, y, edges) ==
  Cardinality({i \in DOMAIN edges : edges[i].source = x /\ edges[i].target = y})

\* C18: undirected(E) has 2 * |E| edges: after each edge (s, t) of E comes
\* (t, s), so that (x, y) stands in it as often as (x, y) and (y, x) together
\* stand in E, nothing being removed; and undirected(undirected(E)) holds the
\* reciprocal of every edge of E at least twice.
C18_UndirectedDoubles ==
  Returned("undirected")
    => /\ Len(ret) = 2 * Len(links)
       /\ \A i \in DOMAIN links :
            /\ ret[2 * i - 1] = links[i]
            /\ ret[2 * i] = [source |-> links[i].target, target |-> links[i].source]
       /\ \A x \in Vertices, y \in Vertices :
            Count(x, y, ret) = Count(x, y, links) + Count(y, x, links)
       /\ \A i \in DOMAIN links :
            Count(links[i].target, links[i].source, undirected(ret)) >= 2

\* E already holds an edge together with its reciprocal, and a self-loop
C18_Witness ==
  /\ Returned("undirected")
  /\ \E x \in Vertices, y \in Vertices :
       x # y /\ IsEdge(x, y, links) /\ IsEdge(y, x, links)
  /\ \E x \in Vertices : IsEdge(x, x, links)
  /\ Len(ret) = 2 * MaxEdges

C21_IndexSets ==
  /\ Returned("parents")
       => /\ Elems(ret) = {s \in Vertices : IsEdge(s, call.id, links)}
          /\ NoDup(ret)
  /\ Returned("children")
       => /\ Elems(ret) = {t \in Vertices : IsEdge(call.id, t, links)}
          /\ NoDup(ret)
  /\ Returned("everything")
       => /\ Elems(ret) = {v \in Vertices : \E w \in Vertices :
                                               IsEdge(v, w, links) \/ IsEdge(w, v, links)}
          /\ NoDup(ret)

\* an edge to id is repeated, and a larger parent of id is listed before a
\* smaller one
C21_Witness ==
  /\ Returned("parents")
  /\ \E s \in Vertices : Count(s, call.id, links) >= 2
  /\ Len(ret) = 2
  /\ ret[1] > ret[2]

\* C22: as a set, siblings(id, E) is the union of children(p, E) over the
\* parents p of id, without id; it is empty when id has no parent; and
\* siblings(2, [(1,2),(2,3),(1,4)]) is [4].
C22_Siblings ==
  /\ Returned("siblings")
       => /\ Elems(ret) = {c \in Vertices : \E p \in Vertices :
                                               IsEdge(p, call.id, links) /\ IsEdge(p, c, links)}
                            \ {call.id}
          /\ (\A p \in Vertices : ~IsEdge(p, call.id, links)) => ret = <<>>
  /\ siblings(2, <<[source |-> 1, target |-> 2], [source |-> 2, target |-> 3],
                   [source |-> 1, target |-> 4]>>) = <<4>>

\* id is one of its own parents and has a sibling
C22_Witness ==
  /\ Returned("siblings")
  /\ IsEdge(call.id, call.id, links)
  /\ ret # <<>>

\* C23: edgesFromNodes keeps an edge of the graph data iff its source id and
\* its target id are both among the ids supplied and both have an entry in
\* the node data; the edges kept stay in the order of the graph data.
C23_EdgesFromNodes ==
  Returned("edgesFromNodes")
    => LET shown == Elems(call.nodes) \cap call.graphNodes
       IN  /\ \A x \in Vertices, y \in Vertices :
                Count(x, y, ret) =
                  IF x \in shown /\ y \in shown THEN Count(x, y, links) ELSE 0
           /\ \A i, j \in DOMAIN ret :
                i < j => \E m, n \in DOMAIN links :
                           m < n /\ links[m] = ret[i] /\ links[n] = ret[j]

\* C23 as stated: an edge is kept iff both its ids are among the ids supplied,
\* whether or not they have an entry in the node data.
C23_EdgesFromIds ==
  Returned("edgesFromNodes")
    => \A x \in Vertices, y \in Vertices :
         Count(x, y, ret) =
           IF x \in Elems(call.nodes) /\ y \in Elems(call.nodes)
           THEN Count(x, y, links)
           ELSE 0

\* an edge joins two supplied ids, one of which has no node entry; another
\* edge is kept
C23_Witness ==
  /\ Returned("edgesFromNodes")
  /\ ret # <<>>
  /\ \E i \in DOMAIN links :
       /\ Has(call.nodes, links[i].source)
       /\ Has(call.nodes, links[i].target)
       /\ links[i].target \notin call.graphNodes
       /\ ~Has(ret, links[i])

DijkstraAgrees ==
  Returned("dijkstraShortestPath") => ret = dijkstraShortestPath(call.id, call.end, links)

\* dequeue takes out of the PriorityQueue, and returns, one of the elements
\* queued: none has a smaller priority, and none of the same priority was
\* enqueued before it (has a smaller serial)
DequeueIsMinimalAndEarliest ==
  (pc = "pq" /\ Len(queue') < Len(queue))
    => LET r == ret'[1]
       IN  /\ r \in Elems(queue)
           /\ Elems(queue') = Elems(queue) \ {r}
           /\ Len(queue') = Len(queue) - 1
           /\ \A e \in Elems(queue) : r[1] < e[1] \/ (r[1] = e[1] /\ r[2] <= e[2])

\* enqueue adds the element to those queued
EnqueueAdds ==
  (pc = "pq" /\ count' = count + 1)
    => /\ Len(queue') = Len(queue) + 1
       /\ \E priority \in 0..MaxDepth :
            Elems(queue') = Elems(queue) \cup {<<priority, count'>>}

\* an iteration of dijkstraShortestPath pops an entry of the fewest hops; no
\* entry queued afterwards has fewer hops than it; the entries that stay
\* keep their order; an entry just enqueued stands behind every older entry
\* of as many hops or fewer, the new entries in the order in which the
\* children were found; and no vertex but the popped one is marked visited
DijkstraPopsInOrder ==
  (pc = "dijkstra" /\ Len(queue) > 0)
    => LET popped  == queue[1]
           current == popped[2][Len(popped[2])]
           old     == Tail(queue)
           isOld(e) == Has(old, e)
           isNew(e) == ~Has(old, e)
       IN  /\ \A e \in Elems(queue) : popped[1] <= e[1]
           /\ \A e \in Elems(queue') : popped[1] <= e[1]
           /\ SelectSeq(queue', isOld) = old
           /\ \A i, j \in DOMAIN queue' :
                (i < j /\ isNew(queue'[i]) /\ isOld(queue'[j]))
                  => queue'[i][1] < queue'[j][1]
           /\ LET fresh == SelectSeq(queue', isNew)
              IN  fresh # <<>>
                    => /\ [i \in DOMAIN fresh |-> fresh[i][2][Len(fresh[i][2])]]
                            = children(current, links)
                       /\ \A i \in DOMAIN fresh : fresh[i][1] = popped[1] + 1
           /\ Elems(resultSet') \subseteq Elems(resultSet) \cup {current}
           /\ (pc' = "done" /\ ret' # <<>>) => ret' = popped[2]

\* C26: dequeue removes and returns an element of the PriorityQueue that is
\* minimal under the comparator among those queued and, among those of equal
\* priority, the one enqueued first; in dijkstraShortestPath the entries are
\* popped in non-decreasing hop count, ties in the order of enqueueing, and a
\* vertex is marked visited only when it is popped.
C26_PriorityQueueOrder ==
  /\ [][DequeueIsMinimalAndEarliest]_vars
  /\ [][EnqueueAdds]_vars
  /\ [][DijkstraPopsInOrder]_vars

\* two elements of equal priority are queued behind a smaller one enqueued later
C26_Witness ==
  /\ pc = "pq"
  /\ Len(queue) = 3
  /\ queue[1][2] = 3
  /\ queue[2][1] = queue[3][1]
  /\ queue[2][2] = 1

----------------------------------------------------------------------------
----------------------------------------------------------------------------
\* C27: traverse terminates: a sweep of the edge list that adds a vertex is
\* followed by another sweep, the first sweep that adds nothing is the last,
\* the sweeps made never number more than the distinct vertices of the edge
\* list plus one, and the loop then returns what traverse returns.
DistinctVertices == Cardinality(Elems(everything(links)))

ScanGrowsOrStops ==
  pc = "scan" /\ count' = count + 1
    => /\ Len(resultSet') >= Len(resultSet)
       /\ SubSeq(resultSet', 1, Len(resultSet)) = resultSet
       /\ retBool' <=> Len(resultSet') > Len(resultSet)

ScanBounded ==
  /\ pc = "scan" => count <= DistinctVertices + 1
  /\ pc = "scan" /\ count = DistinctVertices + 1 => ~retBool
  /\ pc = "done" /\ call.fn = "traverse"
       => /\ count <= DistinctVertices + 1
          /\ ret = traverse(call.id, links, call.mode)

C27_TraverseTerminates == []ScanBounded /\ [][ScanGrowsOrStops]_vars

\* a chain of three vertices given in the order that needs one sweep per
\* vertex: the third sweep added nothing and the loop has stopped
C27_Witness ==
  /\ pc = "done"
  /\ call.fn = "traverse"
  /\ count = DistinctVertices
  /\ count = 3
  /\ Len(ret) = 2

----------------------------------------------------------------------------
\* C28: maze and bfs return the same set of vertices, start together with
\* every vertex that a directed path leads to from start; dfs returns that set
\* whenever maxDepth is at least the number of distinct vertices of the edge
\* list; and start is the first element of each result.
Reachable(start, edges) == {start} \cup Closure(Successors({start}, edges), edges)

C28_SearchesAgree ==
  (pc = "done" /\ call.fn \in {"maze", "bfs", "dfs"})
    => /\ ret # <<>>
       /\ ret[1] = call.id
       /\ Elems(maze(call.id, links)) = Elems(bfs(call.id, links))
       /\ call.fn \in {"maze", "bfs"}
            => Elems(ret) = Reachable(call.id, links)
       /\ call.fn = "dfs" /\ call.maxDepth >= DistinctVertices
            => Elems(ret) = Reachable(call.id, links)

\* dfs on a chain of three vertices with maxDepth 3: the last vertex of the
\* chain lies two hops from start and is returned
C28_Witness ==
  /\ Returned("dfs")
  /\ call.maxDepth = DistinctVertices
  /\ DistinctVertices = 3
  /\ Len(ret) = 3
  /\ BfsDistance(call.id, ret[3], links) = 2

----------------------------------------------------------------------------
\* C29: isolatedNodes returns the empty list for every edge list, because
\* related is non-empty for every endpoint of an edge: a vertex whose only
\* edges are self-loops is related to itself.
OnlySelfLoops(v, edges) ==
  /\ IsEdge(v, v, edges)
  /\ \A i \in DOMAIN edges :
       v \in {edges[i].source, edges[i].target}
         => edges[i] = [source |-> v, target |-> v]

----------------------------------------------------------------------------
\* C30: getData returns the whole graph when subjectId is 0; otherwise it asks
\* for the shortest path exactly when endSubjectId is 0, with target 0, and
\* when endSubjectId is not 0 it asks for descendants and ancestors as their
\* toggles say, shows the nodes among descendants, ancestors and subjectId
\* that the toggles select, and shows the same whatever endSubjectId is.
Selected(c, edges) ==
  LET initialEdges == IF c.undirectedGraph THEN undirected(edges) ELSE edges
  IN  (IF c.showDescendants THEN Elems(descendants(c.id, initialEdges)) ELSE {})
        \cup (IF c.showAncestors THEN Elems(ancestors(c.id, initialEdges)) ELSE {})
        \cup (IF c.showSelf THEN {c.id} ELSE {})

Asked(fn) == \E i \in DOMAIN ret.issued : ret.issued[i].fn = fn

C30_GetDataBranches ==
  Returned("getData")
    => /\ call.id = 0
            => /\ ret.whole
               /\ ret.nodes = Ascending(call.graphNodes)
               /\ ret.links = links
               /\ ret.issued = <<>>
       /\ call.id # 0
            => /\ ~ret.whole
               /\ Asked("dijkstraShortestPath") <=> call.end = 0
               /\ \A i \in DOMAIN ret.issued :
                    ret.issued[i].fn = "dijkstraShortestPath"
                      => ret.issued[i].id = call.id /\ ret.issued[i].end = 0
       /\ call.id # 0 /\ call.end # 0
            => /\ Asked("descendants") <=> call.showDescendants
               /\ Asked("ancestors") <=> call.showAncestors
               /\ Elems(ret.nodes) = Selected(call, links) \cap call.graphNodes
               /\ \A other \in 1..MaxVertex :
                    LET data == getData([call EXCEPT !.end = other], links)
                    IN  data.nodes = ret.nodes /\ data.links = ret.links

\* subjectId and endSubjectId are two vertices joined by a path, the toggles
\* show the ancestors only, and the nodes shown are not those of the path
C30_Witness ==
  /\ Returned("getData")
  /\ call.id # 0
  /\ call.end # 0
  /\ call.end # call.id
  /\ call.showAncestors /\ ~call.showDescendants /\ ~call.showSelf
  /\ ~call.undirectedGraph
  /\ DirectedPath(call.id, call.end, links)
  /\ ret.nodes # <<>>
  /\ ~Has(ret.nodes, call.end)

====
